---------------------------- MODULE Spec2Model ----------------------------
(***************************************************************************)
(* A model of the Obsidian tag generator (src/main.py): main,              *)
(* scan_directory, process_file, the two backends, extract_existing_tags   *)
(* and print_statistics.                                                   *)
(*                                                                         *)
(* Python strings are sequences of one-character strings, so that the      *)
(* regular expression, split, strip and join are computed character by     *)
(* character as the interpreter computes them.  The colored console        *)
(* output and the token counter are left out; neither decides a branch.    *)
(***************************************************************************)
EXTENDS Integers, Sequences, FiniteSets, TLC

(***************************************************************************)
(* Bounds of the explored inputs.                                          *)
(***************************************************************************)
\* the Tags line of a sampled note carries 0..MaxExisting tags
MaxExisting == 11
\* a sampled backend answer carries 0..MaxSuggested tags
MaxSuggested == 11
\* directories of a sampled vault, the root included
MaxDirs == 3

(***************************************************************************)
(* Program constants.                                                      *)
(***************************************************************************)
\* process_file(file_path, retry_limit=3)
retry_limit == 3
\* if len(existing_tags) < 9
EnoughTags == 9
\* if len(suggested_tags) > 10, corrected_tags[:10]
TagCap == 10
\* if response.status_code == 200
StatusOK == 200

(***************************************************************************)
(* str helpers                                                             *)
(***************************************************************************)
\* the characters str.strip(), str.split() and the regex class \s remove
Whitespace == {" ", "\t", "\n", "\r"}

Min(S) == CHOOSE x \in S : \A y \in S : x <= y

\* s.startswith(p)
StartsWith(s, p) == Len(s) >= Len(p) /\ SubSeq(s, 1, Len(p)) = p

\* s.endswith(p)
EndsWith(s, p) == Len(s) >= Len(p) /\ SubSeq(s, Len(s) - Len(p) + 1, Len(s)) = p

RECURSIVE LStrip(_, _)
LStrip(s, cs) ==
    IF s # <<>> /\ Head(s) \in cs THEN LStrip(Tail(s), cs) ELSE s

RECURSIVE RStrip(_, _)
RStrip(s, cs) ==
    IF s # <<>> /\ s[Len(s)] \in cs
    THEN RStrip(SubSeq(s, 1, Len(s) - 1), cs)
    ELSE s

\* s.strip(chars)
StripChars(s, cs) == RStrip(LStrip(s, cs), cs)

\* s.strip()
Strip(s) == StripChars(s, Whitespace)

\* s.split(sep) for a one-character sep: empty pieces are kept
RECURSIVE SplitOn(_, _)
SplitOn(s, sep) ==
    LET hits == {i \in 1..Len(s) : s[i] = sep}
    IN  IF hits = {} THEN <<s>>
        ELSE LET i == Min(hits)
             IN  <<SubSeq(s, 1, i - 1)>> \o SplitOn(SubSeq(s, i + 1, Len(s)), sep)

\* s.split(): runs of whitespace separate, no empty piece is returned
RECURSIVE SplitWs(_)
SplitWs(s) ==
    LET t == LStrip(s, Whitespace)
        hits == {i \in 1..Len(t) : t[i] \in Whitespace}
    IN  IF t = <<>> THEN <<>>
        ELSE IF hits = {} THEN <<t>>
        ELSE LET i == Min(hits)
             IN  <<SubSeq(t, 1, i - 1)>> \o SplitWs(SubSeq(t, i + 1, Len(t)))

\* sep.join(parts)
RECURSIVE Join(_, _)
Join(parts, sep) ==
    IF parts = <<>> THEN <<>>
    ELSE IF Len(parts) = 1 THEN parts[1]
    ELSE parts[1] \o sep \o Join(Tail(parts), sep)

\* x in xs
InSeq(x, xs) == \E i \in 1..Len(xs) : xs[i] = x

\* xs[:n]
Take(xs, n) == SubSeq(xs, 1, IF Len(xs) < n THEN Len(xs) ELSE n)

(***************************************************************************)
(* The regular expression r'\nTags:\s*(.*?)$' under re.MULTILINE           *)
(***************************************************************************)
TagsMarker == <<"\n", "T", "a", "g", "s", ":">>

\* the literal part \nTags: matches at position i of c
MarkerAt(c, i) ==
    i + Len(TagsMarker) - 1 <= Len(c)
    /\ SubSeq(c, i, i + Len(TagsMarker) - 1) = TagsMarker

\* \s* is greedy and crosses line ends: the first position >= j that holds
\* no whitespace, Len(c) + 1 when there is none
SkipSpace(c, j) ==
    LET stops == {k \in j..Len(c) : c[k] \notin Whitespace}
    IN  IF stops = {} THEN Len(c) + 1 ELSE Min(stops)

\* (.*?)$ is lazy and '.' matches no line end: the group runs to the first
\* line end at or after j, Len(c) + 1 when there is none
LineEnd(c, j) ==
    LET ends == {k \in j..Len(c) : c[k] = "\n"}
    IN  IF ends = {} THEN Len(c) + 1 ELSE Min(ends)

NoMatch == [found |-> FALSE, start |-> 0, gstart |-> 0, end |-> 0]

\* pattern.search(c, pos): the leftmost match starting at or after pos; the
\* match is c[start..end-1] and group(1) is c[gstart..end-1]
SearchTags(c, pos) ==
    LET starts == {i \in pos..Len(c) : MarkerAt(c, i)}
    IN  IF starts = {} THEN NoMatch
        ELSE LET i == Min(starts)
                 g == SkipSpace(c, i + Len(TagsMarker))
             IN  [found |-> TRUE, start |-> i, gstart |-> g, end |-> LineEnd(c, g)]

\* match.group(1)
Group1(c, m) == SubSeq(c, m.gstart, m.end - 1)

\* re.sub(pattern, repl, c): every non-overlapping match, left to right
RECURSIVE SubFrom(_, _, _)
SubFrom(c, repl, pos) ==
    LET m == SearchTags(c, pos)
    IN  IF ~m.found THEN SubSeq(c, pos, Len(c))
        ELSE SubSeq(c, pos, m.start - 1) \o repl \o SubFrom(c, repl, m.end)

ReSub(c, repl) == SubFrom(c, repl, 1)

(***************************************************************************)
(* extract_existing_tags                                                   *)
(***************************************************************************)
NonEmpty(s) == s # <<>>

extract_existing_tags(content) ==
    LET match == SearchTags(content, 1)
    IN  IF match.found
        THEN LET pieces == SplitOn(Group1(content, match), "#")
             IN  SelectSeq([i \in 1..Len(pieces) |-> Strip(pieces[i])], NonEmpty)
        ELSE <<>>

(***************************************************************************)
(* The backends.  A call either raises (requests.post raises, or the       *)
(* body cannot be decoded), returns None, or returns a list of tags.       *)
(***************************************************************************)
Raises(exc) == [kind |-> "raise", exc |-> exc, tags |-> <<>>]
None == [kind |-> "None", exc |-> "", tags |-> <<>>]
List(tags) == [kind |-> "list", exc |-> "", tags |-> tags]

\* what requests.post does: it raises, or it returns a response with a
\* status code and a body that decodes (json_ok) to the generated text
TransportError == [sent |-> FALSE, status_code |-> 0, json_ok |-> FALSE, text |-> <<>>]
HttpResponse(status, ok, text) ==
    [sent |-> TRUE, status_code |-> status, json_ok |-> ok, text |-> text]

\* tag = tag.strip('# '); if not tag.startswith('#'): tag = '#' + tag
OllamaCorrect(tag) ==
    LET t == StripChars(tag, {"#", " "})
    IN  IF StartsWith(t, <<"#">>) THEN t ELSE <<"#">> \o t

get_suggested_tags_ollama(response) ==
    IF ~response.sent THEN Raises("RequestException")
    ELSE IF response.status_code = StatusOK
    THEN IF response.json_ok
         THEN LET tags == SplitWs(Strip(response.text))
              IN  List([i \in 1..Len(tags) |-> OllamaCorrect(tags[i])])
         ELSE None
    ELSE None

get_suggested_tags_claude(response) ==
    IF ~response.sent THEN Raises("RequestException")
    ELSE IF response.status_code = StatusOK
    THEN IF response.json_ok
         THEN List(SplitWs(Strip(response.text)))
         ELSE Raises("KeyError")
    ELSE None

get_suggested_tags(ollama, response) ==
    IF ollama THEN get_suggested_tags_ollama(response)
    ELSE get_suggested_tags_claude(response)

\* if suggested_tags: Python's truth value of the returned object, false for
\* None and for []
Truthy(r) == r.kind = "list" /\ r.tags # <<>>

\* the variant in which an answer of exactly 10 tags is retried too
OversizedAtCap(tags) == Len(tags) >= TagCap

\* if len(suggested_tags) > 10
Oversized(tags) == Len(tags) > TagCap

(***************************************************************************)
(* The merge and the rewrite of process_file                               *)
(***************************************************************************)
\* existing_tags + [tag for tag in suggested_tags if tag not in existing_tags]
AllTags(existing, suggested) ==
    existing \o SelectSeq(suggested, LAMBDA tag : ~InSeq(tag, existing))

\* if not tag.startswith('#'): tag = '#' + tag.strip()
CorrectTag(tag) ==
    IF StartsWith(tag, <<"#">>) THEN tag ELSE <<"#">> \o Strip(tag)

\* corrected_tags, truncated to 10
CorrectedTags(existing, suggested) ==
    LET all_tags == AllTags(existing, suggested)
    IN  Take([i \in 1..Len(all_tags) |-> CorrectTag(all_tags[i])], TagCap)

\* f"\nTags: {tag_string}"
TagsLineText(tag_string) == TagsMarker \o <<" ">> \o tag_string

\* the content process_file writes back
Rewrite(content, corrected) ==
    LET tag_string == Join(corrected, <<" ">>)
    IN  IF SearchTags(content, 1).found
        THEN ReSub(content, TagsLineText(tag_string))
        ELSE content \o TagsLineText(tag_string)

(***************************************************************************)
(* scan_directory's filter                                                 *)
(***************************************************************************)
ExcludedNames ==
    { <<"z", "T", "e", "m", "p", "l", "a", "t", "e", "s">>,
      <<"c", "h", "e", "a", "t", "-", "s", "h", "e", "e", "t", "s", "-", "m", "a", "i", "n">>,
      <<"z", "z", "_", "A", "t", "t", "a", "c", "h", "m", "e", "n", "t", "s">>,
      <<"0", "0", " ", "M", "o", "n", "t", "h", "l", "y", " ", "T", "a", "s", "k", "s">>,
      <<"B", "M", "O">>,
      <<"z", "z", "_", "A", "r", "c", "h", "i", "v", "e">> }

\* the variant in which hidden directories are not pruned
KeepDirListedOnly(d) == d \notin ExcludedNames

\* not d.startswith('.') and d not in (...)
KeepDir(d) == ~StartsWith(d, <<".">>) /\ d \notin ExcludedNames

\* file.endswith('.md')
IsNote(file) == EndsWith(file, <<".", "m", "d">>)

(***************************************************************************)
(* The explored inputs: notes, backend answers, vaults                     *)
(***************************************************************************)
TagNames == <<"a", "b", "c", "d", "e", "f", "g", "h", "i", "j", "k", "l", "m", "n">>

\* #a #b #c ... : the tags a sampled note carries
NoteTags(k) == [i \in 1..k |-> <<"#", TagNames[i]>>]

\* #b #c #d ... : the tags a sampled answer carries (all but #a are shared
\* with the notes)
AnswerTags(k) == [i \in 1..k |-> <<"#", TagNames[i + 1]>>]

\* the line "Tags: #a #b ..." ("Tags:" alone for no tag)
TagsLineOf(k) ==
    <<"T", "a", "g", "s", ":">>
        \o (IF k = 0 THEN <<>> ELSE <<" ">> \o Join(NoteTags(k), <<" ">>))

LinesBefore == { <<>>, << <<"T", "i", "t", "l", "e">> >> }
LinesOfTags == { <<>> } \cup { <<TagsLineOf(k)>> : k \in 0..MaxExisting }
LinesAfter ==
    { <<>>,
      << <<"B", "o", "d", "y">> >>,
      << <<"B", "o", "d", "y">>, <<"T", "a", "g", "s", ":", " ", "#", "n">> >> }

\* a note: an optional title, an optional Tags line, an optional body that
\* may hold a second Tags line
Notes ==
    { Join(b \o t \o a, <<"\n">>) : b \in LinesBefore, t \in LinesOfTags, a \in LinesAfter }

\* in a vault with subdirectories: the note of the root, and the note of
\* every other directory, which carries enough tags already
PlainNote == <<"T", "i", "t", "l", "e", "\n", "T", "a", "g", "s", ":", " ", "#", "a">>
FullNote == <<"T", "i", "t", "l", "e", "\n">> \o TagsLineOf(EnoughTags)

\* generated texts: 0..MaxSuggested well-formed tags, a first tag without
\* its '#', and a token holding two '#'
Texts ==
    { Join(AnswerTags(k), <<" ">>) : k \in 0..MaxSuggested }
        \cup { <<"b", " ", "#", "c">>, <<"#", "b", "#", "c">> }

Responses ==
    { TransportError, HttpResponse(500, FALSE, <<>>), HttpResponse(StatusOK, FALSE, <<>>) }
        \cup { HttpResponse(StatusOK, TRUE, t) : t \in Texts }

DirNames ==
    { <<".", "g", "i", "t">>,
      <<"z", "T", "e", "m", "p", "l", "a", "t", "e", "s">>,
      <<"n", "o", "t", "e", "s">> }

NoteFile == <<"n", ".", "m", "d">>
OtherFile == <<"r", ".", "t", "x", "t">>

\* what os.walk lists as the files of the root, and of every other directory
RootListings == { <<OtherFile>>, <<NoteFile, OtherFile>> }
SubListing == <<NoteFile>>

(***************************************************************************)
(* State                                                                   *)
(***************************************************************************)
VARIABLES
    pc,               \* main | scan | retry | done | crashed
    error,            \* the uncaught exception, "" when none
    use_ollama,       \* USE_OLLAMA
    ndirs,            \* the vault: directories 1..ndirs, 1 the root
    parent,           \*   parent[d] of every directory d > 1
    dname,            \*   name of every directory d > 1
    listing,          \*   the file names of every directory
    disk,             \* the content of every file, by path <<directory, name>>
    orig,             \* disk as it was when the run began
    stack,            \* os.walk: the directories still to be yielded
    root,             \* os.walk: the directory being yielded
    files,            \* the files of root the loop has not reached yet
    processed_files,  \* scan_directory's list of results
    api_queries,      \* the global counter
    file_path,        \* process_file: its argument
    content,          \* process_file: the content read
    existing_tags,    \* process_file: the tags extracted
    retry_count,      \* process_file: the loop counter
    opened,           \* history: the paths process_file was called with
    calls,            \* history: what each backend call for file_path returned
    writes,           \* history: the paths written
    report            \* what print_statistics printed

vars ==
    << pc, error, use_ollama, ndirs, parent, dname, listing, disk, orig, stack,
       root, files, processed_files, api_queries, file_path, content,
       existing_tags, retry_count, opened, calls, writes, report >>

vault == << ndirs, parent, dname, listing, orig >>
walk == << stack, root, files >>
locals == << file_path, content, existing_tags, retry_count >>

NoReport == [printed |-> FALSE, total_files |-> 0, tags_updated |-> 0,
             existing_tags |-> 0, failed |-> 0, average |-> FALSE]

Dirs == 1..ndirs
Paths == { <<d, f>> \in Dirs \X {NoteFile, OtherFile} : InSeq(f, listing[d]) }

Init ==
    /\ pc = "main"
    /\ error = ""
    /\ use_ollama = FALSE
    /\ ndirs \in 1..MaxDirs
    /\ parent \in [2..ndirs -> 1..ndirs]
    /\ \A d \in 2..ndirs : parent[d] < d
    /\ dname \in [2..ndirs -> DirNames]
    /\ \E rl \in RootListings :
           listing = [d \in 1..ndirs |-> IF d = 1 THEN rl ELSE SubListing]
    /\ \E note \in (IF ndirs = 1 THEN Notes ELSE {PlainNote}) :
           disk = [p \in Paths |->
                     IF ~IsNote(p[2]) THEN <<>>
                     ELSE IF p[1] = 1 THEN note ELSE FullNote]
    /\ orig = disk
    /\ stack = <<>>
    /\ root = 0
    /\ files = <<>>
    /\ processed_files = <<>>
    /\ api_queries = 0
    /\ file_path = <<>>
    /\ content = <<>>
    /\ existing_tags = <<>>
    /\ retry_count = 0
    /\ opened = <<>>
    /\ calls = <<>>
    /\ writes = <<>>
    /\ report = NoReport

(***************************************************************************)
(* main: the configuration is read from the environment; without a         *)
(* directory, or without a key when the remote backend is selected, main   *)
(* prints an error and returns; otherwise scan_directory starts os.walk.   *)
(***************************************************************************)
Main ==
    /\ pc = "main"
    /\ \E directory_set, key_set, ollama \in BOOLEAN :
           /\ use_ollama' = ollama
           /\ IF ~directory_set \/ (~ollama /\ ~key_set)
              THEN pc' = "done" /\ stack' = <<>>
              ELSE pc' = "scan" /\ stack' = <<1>>
    /\ UNCHANGED << error, vault, disk, root, files, processed_files, api_queries,
                    locals, opened, calls, writes, report >>

\* the subdirectories of d, in the order os.walk lists them
RECURSIVE ChildrenFrom(_, _)
ChildrenFrom(d, c) ==
    IF c > ndirs THEN <<>>
    ELSE (IF parent[c] = d THEN <<c>> ELSE <<>>) \o ChildrenFrom(d, c + 1)

Children(d) == ChildrenFrom(d, 2)

\* dirs[:] = [d for d in dirs if ...]
PrunedDirs(d) == SelectSeq(Children(d), LAMBDA c : KeepDir(dname[c]))

(***************************************************************************)
(* os.walk yields the next directory; the loop body prunes dirs in place,  *)
(* and os.walk descends only into what is left.                            *)
(***************************************************************************)
NextDir ==
    /\ pc = "scan"
    /\ files = <<>>
    /\ stack # <<>>
    /\ root' = Head(stack)
    /\ files' = listing[Head(stack)]
    /\ stack' = PrunedDirs(Head(stack)) \o Tail(stack)
    /\ UNCHANGED << pc, error, use_ollama, vault, disk, processed_files, api_queries,
                    locals, opened, calls, writes, report >>

Result(path, status, tags) == [file |-> path, status |-> status, tags |-> tags]

\* the process ends with a traceback
Crash(exc) == pc' = "crashed" /\ error' = exc

(***************************************************************************)
(* One pass of `for file in files`: a file that is no note is skipped;     *)
(* for a note process_file is called, reads it (open or read may raise),   *)
(* extracts its tags and either returns existing_tags or enters the retry  *)
(* loop.                                                                   *)
(***************************************************************************)
NextFile ==
    /\ pc = "scan"
    /\ files # <<>>
    /\ files' = Tail(files)
    /\ LET path == <<root, Head(files)>>
       IN  IF ~IsNote(Head(files))
           THEN UNCHANGED << pc, error, processed_files, locals, opened, calls >>
           ELSE /\ opened' = Append(opened, path)
                /\ calls' = <<>>
                /\ \E readable \in BOOLEAN :
                       IF ~readable
                       THEN /\ Crash("OSError")
                            /\ UNCHANGED << processed_files, locals >>
                       ELSE LET text == disk[path]
                                tags == extract_existing_tags(text)
                            IN  /\ file_path' = path
                                /\ content' = text
                                /\ existing_tags' = tags
                                /\ retry_count' = 0
                                /\ error' = error
                                /\ IF Len(tags) < EnoughTags
                                   THEN /\ pc' = "retry"
                                        /\ UNCHANGED processed_files
                                   ELSE /\ pc' = "scan"
                                        /\ processed_files' =
                                               Append(processed_files,
                                                      Result(path, "existing_tags", tags))
    /\ UNCHANGED << use_ollama, vault, disk, stack, root, api_queries, writes, report >>

(***************************************************************************)
(* One pass of `while retry_count < retry_limit`: the backend is called    *)
(* and answers; the pass raises, returns failed, counts an oversized       *)
(* answer (and returns failed when the limit is reached), or merges,       *)
(* rewrites the file (open may raise) and returns tags_updated.            *)
(***************************************************************************)
Attempt ==
    /\ pc = "retry"
    /\ retry_count < retry_limit
    /\ \E response \in Responses :
           LET suggested_tags == get_suggested_tags(use_ollama, response)
               corrected_tags == CorrectedTags(existing_tags, suggested_tags.tags)
           IN  /\ api_queries' = api_queries + 1
               /\ calls' = Append(calls, suggested_tags)
               /\ IF suggested_tags.kind = "raise"
                  THEN /\ Crash(suggested_tags.exc)
                       /\ UNCHANGED << disk, processed_files, content, retry_count, writes >>
                  ELSE IF ~Truthy(suggested_tags)
                  THEN /\ pc' = "scan"
                       /\ processed_files' =
                              Append(processed_files, Result(file_path, "failed", <<>>))
                       /\ UNCHANGED << error, disk, content, retry_count, writes >>
                  ELSE IF Oversized(suggested_tags.tags)
                  THEN /\ retry_count' = retry_count + 1
                       /\ IF retry_count + 1 < retry_limit
                          THEN pc' = "retry" /\ UNCHANGED processed_files
                          ELSE /\ pc' = "scan"
                               /\ processed_files' =
                                      Append(processed_files,
                                             Result(file_path, "failed", <<>>))
                       /\ UNCHANGED << error, disk, content, writes >>
                  ELSE /\ content' = Rewrite(content, corrected_tags)
                       /\ UNCHANGED retry_count
                       /\ \E writable \in BOOLEAN :
                              IF ~writable
                              THEN /\ Crash("OSError")
                                   /\ UNCHANGED << disk, processed_files, writes >>
                              ELSE /\ disk' = [disk EXCEPT ![file_path] = content']
                                   /\ writes' = Append(writes, file_path)
                                   /\ pc' = "scan"
                                   /\ error' = error
                                   /\ processed_files' =
                                          Append(processed_files,
                                                 Result(file_path, "tags_updated",
                                                        corrected_tags))
    /\ UNCHANGED << use_ollama, vault, walk, file_path, existing_tags, opened, report >>

\* sum(1 for file in processed_files if file['status'] == status)
CountStatus(status) ==
    Cardinality({i \in 1..Len(processed_files) : processed_files[i].status = status})

(***************************************************************************)
(* print_statistics, once os.walk is exhausted: the counts are printed,    *)
(* then run_time/total_files is evaluated for the average.                 *)
(***************************************************************************)
PrintStatistics ==
    /\ pc = "scan"
    /\ files = <<>>
    /\ stack = <<>>
    /\ LET total_files == Len(processed_files)
           counts == [printed |-> TRUE,
                      total_files |-> total_files,
                      tags_updated |-> CountStatus("tags_updated"),
                      existing_tags |-> CountStatus("existing_tags"),
                      failed |-> CountStatus("failed"),
                      average |-> FALSE]
       IN  IF total_files = 0
           THEN /\ report' = counts
                /\ Crash("ZeroDivisionError")
           ELSE /\ report' = [counts EXCEPT !.average = TRUE]
                /\ pc' = "done"
                /\ error' = error
    /\ UNCHANGED << use_ollama, vault, disk, walk, processed_files, api_queries,
                    locals, opened, calls, writes >>

Next == Main \/ NextDir \/ NextFile \/ Attempt \/ PrintStatistics

Spec == Init /\ [][Next]_vars

(***************************************************************************)
(* The vocabulary of the properties: the note format read line by line,    *)
(* canonical tags, and the bookkeeping of the run.                         *)
(***************************************************************************)
LinesOf(c) == SplitOn(c, "\n")

IsTagsLine(line) == StartsWith(line, <<"T", "a", "g", "s", ":">>)

TagsLineIndexes(c) == {i \in 1..Len(LinesOf(c)) : IsTagsLine(LinesOf(c)[i])}

HasTagsLine(c) == TagsLineIndexes(c) # {}

\* the tokens the first Tags line of c carries, <<>> without a Tags line
DeclaredTags(c) ==
    IF ~HasTagsLine(c) THEN <<>>
    ELSE LET line == LinesOf(c)[Min(TagsLineIndexes(c))]
         IN  SplitWs(SubSeq(line, 6, Len(line)))

\* one leading '#', no other '#', no whitespace at either end
IsCanonical(tag) ==
    /\ Len(tag) >= 2
    /\ tag[1] = "#"
    /\ \A i \in 2..Len(tag) : tag[i] # "#"
    /\ tag[2] \notin Whitespace
    /\ tag[Len(tag)] \notin Whitespace

CanonicalForm(tag) == <<"#">> \o StripChars(tag, {"#"} \cup Whitespace)

\* existing first, then the suggestions whose canonical form is new, capped
MergedCanonically(existing, suggested) ==
    LET e == [i \in 1..Len(existing) |-> CanonicalForm(existing[i])]
        s == [i \in 1..Len(suggested) |-> CanonicalForm(suggested[i])]
    IN  Take(e \o SelectSeq(s, LAMBDA tag : ~InSeq(tag, e)), TagCap)

Last(xs) == xs[Len(xs)]

\* calls is the log of the backend calls made for file_path
LastCall == Last(calls)

IsOversized(r) == r.kind = "list" /\ Len(r.tags) > TagCap
IsUnusable(r) == r.kind = "None" \/ (r.kind = "list" /\ r.tags = <<>>)

\* process_file has returned for file_path after calling the backend: its
\* result is the last of processed_files
Returned ==
    /\ calls # <<>>
    /\ pc \in {"scan", "done"}
    /\ processed_files # <<>>
    /\ Last(processed_files).file = file_path

\* d is the root, or neither d nor a directory above it (below the root)
\* is hidden or named in the exclusion list
RECURSIVE Reachable(_)
Reachable(d) ==
    \/ d = 1
    \/ /\ dname[d][1] # "."
       /\ dname[d] \notin ExcludedNames
       /\ Reachable(parent[d])

EligiblePaths == {p \in Paths : IsNote(p[2]) /\ Reachable(p[1])}

\* d is s or lies below s
RECURSIVE Below(_, _)
Below(d, s) == d = s \/ (d > 1 /\ Below(parent[d], s))

\* os.walk has not reached p yet: p is a file of the current directory the
\* loop has still to take, or lies in a directory still to be yielded
Ahead(p) ==
    \/ p[1] = root /\ InSeq(p[2], files)
    \/ \E k \in 1..Len(stack) : Below(p[1], stack[k])

WalkStarted == pc \in {"scan", "retry", "crashed"} \/ report.printed

(***************************************************************************)
(* C1: a note whose Tags line carries 9 or more tags is never written,     *)
(* the backend is never called for it, its content on disk stays what it   *)
(* was and its outcome is existing_tags.                                   *)
(***************************************************************************)
C1_EnoughTagsUntouched ==
    \A i \in 1..Len(opened) :
        LET p == opened[i]
        IN  Len(DeclaredTags(orig[p])) >= EnoughTags =>
                /\ ~InSeq(p, writes)
                /\ disk[p] = orig[p]
                /\ ~(pc = "retry" /\ file_path = p)
                /\ (file_path = p => calls = <<>>)
                /\ \A j \in 1..Len(processed_files) :
                       processed_files[j].file = p =>
                           processed_files[j].status = "existing_tags"

(***************************************************************************)
(* C2: the tag list of every outcome has at most 10 elements and each is   *)
(* a canonical tag.                                                        *)
(***************************************************************************)
C2_OutcomeTagsCanonical ==
    \A j \in 1..Len(processed_files) :
        /\ Len(processed_files[j].tags) <= TagCap
        /\ \A k \in 1..Len(processed_files[j].tags) :
               IsCanonical(processed_files[j].tags[k])

(***************************************************************************)
(* C3: extract_existing_tags returns exactly the tokens of the Tags line,  *)
(* each with its '#', in document order, wherever the line stands; and     *)
(* the empty sequence when there is no Tags line.                          *)
(***************************************************************************)
C3_ExtractReturnsDeclared ==
    file_path # <<>> => existing_tags = DeclaredTags(orig[file_path])

(***************************************************************************)
(* C4: the tags process_file writes are the extracted tags in their order  *)
(* followed by the suggested tags whose canonical form equals none of      *)
(* them, in suggestion order, capped at 10.                                *)
(***************************************************************************)
C4_MergeDeduplicates ==
    (Returned /\ Last(processed_files).status = "tags_updated") =>
        Last(processed_files).tags = MergedCanonically(existing_tags, LastCall.tags)

C6_PerFileErrorsContained ==
    ~(pc = "crashed" /\ error \in {"OSError", "RequestException", "KeyError"})

(***************************************************************************)
(* C7: print_statistics over zero processed files completes: it reports    *)
(* 0 files and does not divide by zero.                                    *)
(***************************************************************************)
C7_ZeroFilesReported ==
    (report.printed /\ report.total_files = 0) =>
        (pc = "done" /\ error = "")

(***************************************************************************)
(* C8: process_file is never called for a file under a hidden or listed    *)
(* directory, at any depth, and never twice for one file; the walk skips   *)
(* no note outside such directories (each has been processed or is still   *)
(* ahead of the walk), and when os.walk is exhausted every one of them     *)
(* has been processed.                                                     *)
(***************************************************************************)
C8_ExcludedNeverProcessed ==
    /\ \A i \in 1..Len(opened) : opened[i] \in EligiblePaths
    /\ \A i, j \in 1..Len(opened) : opened[i] = opened[j] => i = j
    /\ WalkStarted => \A p \in EligiblePaths : InSeq(p, opened) # Ahead(p)
    /\ report.printed => {opened[i] : i \in 1..Len(opened)} = EligiblePaths

C8_Witness ==
    /\ report.printed
    /\ opened # <<>>
    /\ \E d \in 2..ndirs : dname[d][1] = "."
    /\ \E d \in 2..ndirs : dname[d] \in ExcludedNames
    /\ \E p \in Paths : IsNote(p[2]) /\ p \notin EligiblePaths

(***************************************************************************)
(* C9: an answer of 10 or fewer tags, zero included, is no failure: it is  *)
(* merged and written and the outcome is tags_updated; failed comes only   *)
(* from a backend failure or from three oversized answers.                 *)
(***************************************************************************)
C9_ZeroTagsProceed ==
    /\ (calls # <<>> /\ LastCall.kind = "list" /\ Len(LastCall.tags) <= TagCap
            /\ pc # "crashed") =>
           /\ Returned
           /\ Last(processed_files).status = "tags_updated"
    /\ (Returned /\ Last(processed_files).status = "failed") =>
           \/ LastCall.kind = "None"
           \/ (Len(calls) = retry_limit /\ IsOversized(LastCall))

(***************************************************************************)
(* C10: a rewrite changes the tag line only: with a Tags line, the first   *)
(* one is replaced in place and every other line is kept; without one,     *)
(* one Tags line is appended after the unchanged content.                  *)
(***************************************************************************)
C10_RewriteKeepsOtherLines ==
    \A i \in 1..Len(writes) :
        LET old == LinesOf(orig[writes[i]])
            new == LinesOf(disk[writes[i]])
        IN  IF HasTagsLine(orig[writes[i]])
            THEN LET t == Min(TagsLineIndexes(orig[writes[i]]))
                 IN  /\ Len(new) = Len(old)
                     /\ IsTagsLine(new[t])
                     /\ \A k \in 1..Len(old) : k # t => new[k] = old[k]
            ELSE /\ Len(new) = Len(old) + 1
                 /\ SubSeq(new, 1, Len(old)) = old
                 /\ IsTagsLine(new[Len(new)])

=============================================================================
